---- MODULE Spec2Model ----
(***************************************************************************)
(* The two memory-mapped peripherals of the TS-7200 emulator:              *)
(*   - Timer (src/devices/timer.rs): a wrapping down-counter whose value   *)
(*     is derived lazily from elapsed wall-clock time on every access;     *)
(*   - Vic (src/devices/vic/mod.rs): the vectored interrupt controller.    *)
(*                                                                         *)
(* A u32 is kept as a pair <<hi, lo>> of 16-bit halves, so that every      *)
(* 32-bit value and every 32-bit wrap-around is represented exactly.       *)
(***************************************************************************)
EXTENDS Integers, Sequences, FiniteSets, TLC

VARIABLES
    timer,            \* the fields of struct Timer
    tpc,              \* "running", or "aborted" once a timer access panicked
    tret,             \* the timer access just performed (d: the nanoseconds
                      \* elapsed since the access before it) and its result
    thist,            \* history of the timer accesses (used by the properties only)
    vic,              \* the fields of struct Vic
    vret              \* the most recent controller operation (val: the value
                      \* a write carried) and its result

vars == <<timer, tpc, tret, thist, vic, vret>>
timerVars == <<timer, tpc, tret, thist>>
vicVars == <<vic, vret>>

----------------------------------------------------------------------------
(* Bounds of the model *)

\* the clock readings stop at this many nanoseconds
MaxNow == 599999

\* the time elapsed between two clock readings, in nanoseconds: none, half
\* a tick of the 2 kHz clock (127 ticks of the 508 kHz clock), and
\* 152.4 ticks of the 508 kHz clock
DtSet == {0, 250000, 300000}

----------------------------------------------------------------------------
(* u32 arithmetic on <<hi, lo>> pairs of 16-bit halves *)

Half == 2^16

U32Zero == <<0, 0>>
U32Max == <<Half - 1, Half - 1>>

\* a small natural number as a u32
FromNat(n) == <<(n \div Half) % Half, n % Half>>

\* `a >= b` on u32
Ge32(a, b) == \/ a[1] > b[1]
              \/ a[1] = b[1] /\ a[2] >= b[2]

\* u32::wrapping_sub
wrapping_sub(a, b) ==
    LET lo == a[2] - b[2]
        borrow == IF lo < 0 THEN 1 ELSE 0
        hi == a[1] - b[1] - borrow
    IN  <<hi % Half, lo % Half>>

\* bitwise and / or / not of two 16-bit halves
RECURSIVE And16(_, _)
And16(a, b) ==
    IF a = 0 \/ b = 0 THEN 0
    ELSE (a % 2) * (b % 2) + 2 * And16(a \div 2, b \div 2)

Or16(a, b) == a + b - And16(a, b)

\* `a & b`, `a | b`, `!a` on u32
And32(a, b) == <<And16(a[1], b[1]), And16(a[2], b[2])>>
Or32(a, b) == <<Or16(a[1], b[1]), Or16(a[2], b[2])>>
Not32(a) == <<Half - 1 - a[1], Half - 1 - a[2]>>

\* `1 << i` for i in 0..31
Shl1(i) == IF i < 16 THEN <<0, 2^i>> ELSE <<2^(i - 16), 0>>

\* `w & (1 << i) != 0`
TestBit(w, i) == And32(w, Shl1(i)) # U32Zero

----------------------------------------------------------------------------
(* Timer *)

None == <<>>
Some(v) == <<v>>

MicroPerTick == 1000000

\* results of a register access
Ok(v) == [kind |-> "Ok", val |-> v]
Err(k) == [kind |-> k, val |-> U32Zero]
Panic == [kind |-> "Panic", val |-> U32Zero]

\* the bit widths the board creates its timers with
TimerBits == {16, 32}

\* wrapmask: ((1u64 << bits) - 1) as u32
WrapMask(bits) ==
    <<2^(IF bits > 16 THEN bits - 16 ELSE 0) - 1,
      2^(IF bits > 16 THEN 16 ELSE bits) - 1>>

\* Timer::new
TimerNew(bits) ==
    [ loadval    |-> None,
      val        |-> U32Zero,
      enabled    |-> FALSE,
      mode       |-> "FreeRunning",
      clksel     |-> "Khz2",
      wrapmask   |-> WrapMask(bits),
      last_time  |-> 0,
      microticks |-> 0 ]

Khz(clksel) == IF clksel = "Khz2" THEN 2 ELSE 508

\* mutant of PeriodicReload: an absent load value reloads the counter with 0
PeriodicReload_UnsetLoadIsZero(t, ticks, oc) ==
    IF Ge32(t.val, ticks)
    THEN [val |-> wrapping_sub(t.val, ticks), panic |-> FALSE]
    ELSE IF t.loadval = None
    THEN [val |-> U32Zero, panic |-> FALSE]
    ELSE LET loadval == t.loadval[1]
             remaining_ticks == wrapping_sub(ticks, t.val)
         IN  IF Ge32(loadval, remaining_ticks)
             THEN [val |-> wrapping_sub(loadval, remaining_ticks), panic |-> FALSE]
             ELSE IF oc
             THEN [val |-> t.val, panic |-> TRUE]
             ELSE [val |-> wrapping_sub(loadval, remaining_ticks), panic |-> FALSE]

\* mutant of PeriodicReload: the counter wraps through zero without a reload
PeriodicReload_NoReload(t, ticks, oc) ==
    IF t.loadval = None /\ ~Ge32(t.val, ticks)
    THEN [val |-> t.val, panic |-> TRUE]
    ELSE [val |-> wrapping_sub(t.val, ticks), panic |-> FALSE]

\* the periodic-mode branch of update_regs: the new value, or a panic
PeriodicReload(t, ticks, oc) ==
    IF Ge32(t.val, ticks)
    THEN [val |-> wrapping_sub(t.val, ticks), panic |-> FALSE]
    ELSE IF t.loadval = None
    THEN [val |-> t.val, panic |-> TRUE]
    ELSE LET loadval == t.loadval[1]
             remaining_ticks == wrapping_sub(ticks, t.val)
         IN  IF Ge32(loadval, remaining_ticks)
             THEN [val |-> wrapping_sub(loadval, remaining_ticks), panic |-> FALSE]
             \* `loadval - remaining_ticks` underflows: a panic when the build
             \* checks overflow, a silent wrap-around otherwise
             ELSE IF oc
             THEN [val |-> t.val, panic |-> TRUE]
             ELSE [val |-> wrapping_sub(loadval, remaining_ticks), panic |-> FALSE]

\* mutant of Microticks: the fraction carried from the last update is dropped
Microticks_NoCarry(t, dt) == dt * Khz(t.clksel)

\* the ticks and the new fraction that update_regs derives from dt
Microticks(t, dt) == dt * Khz(t.clksel) + t.microticks
Ticks(t, dt) == FromNat(Microticks(t, dt) \div MicroPerTick)

\* mutant of update_regs: a disabled timer decays like an enabled one
update_regs_DecaysDisabled(t, n, oc) ==
    LET dt == n - t.last_time
        t1 == [t EXCEPT !.last_time = n]
        ticks == Ticks(t, dt)
        t2 == [t1 EXCEPT !.microticks = Microticks(t, dt) % MicroPerTick]
    IN  IF t.mode = "FreeRunning"
        THEN [t |-> [t2 EXCEPT !.val =
                        And32(wrapping_sub(t.val, ticks), t.wrapmask)],
              panic |-> FALSE]
        ELSE LET p == PeriodicReload(t2, ticks, oc)
             IN  [t |-> [t2 EXCEPT !.val = p.val], panic |-> p.panic]

\* Timer::update_regs at clock reading n; oc: whether the build checks
\* integer overflow (a debug build) or lets it wrap (a release build)
update_regs(t, n, oc) ==
    LET dt == n - t.last_time
        t1 == [t EXCEPT !.last_time = n]
    IN  IF ~t.enabled
        THEN [t |-> t1, panic |-> FALSE]
        ELSE LET ticks == Ticks(t, dt)
                 t2 == [t1 EXCEPT !.microticks = Microticks(t, dt) % MicroPerTick]
             IN  IF t.mode = "FreeRunning"
                 THEN [t |-> [t2 EXCEPT !.val =
                                 And32(wrapping_sub(t.val, ticks), t.wrapmask)],
                       panic |-> FALSE]
                 ELSE LET p == PeriodicReload(t2, ticks, oc)
                      IN  [t |-> [t2 EXCEPT !.val = p.val], panic |-> p.panic]

\* what update_regs can leave behind, over the builds of the program
UpdateOutcomes(t, n) == {update_regs(t, n, oc) : oc \in BOOLEAN}

\* the Control register as r32 packs it
ControlWord(t) ==
    FromNat((IF t.clksel = "Khz508" THEN 8 ELSE 0)
          + (IF t.mode = "Periodic" THEN 64 ELSE 0)
          + (IF t.enabled THEN 128 ELSE 0))

\* the match of Timer::r32, after update_regs (mem_unimpl! and
\* mem_unexpected! return the two error kinds of section 7)
TimerRead(t, offset) ==
    CASE offset = 0  -> IF t.loadval = None THEN Panic ELSE Ok(t.loadval[1])
      [] offset = 4  -> Ok(t.val)
      [] offset = 8  -> Ok(ControlWord(t))
      [] offset = 12 -> Err("Unimplemented")
      [] OTHER       -> Err("Unexpected")

\* mutant of WriteLoad: the write is accepted while the timer is enabled
WriteLoad_WhileEnabled(t, val) ==
    [t |-> [t EXCEPT !.loadval = Some(And32(val, t.wrapmask)),
                     !.val = And32(val, t.wrapmask)],
     res |-> Ok(U32Zero)]

\* mutant of WriteLoad: the counter is not updated with the load value
WriteLoad_KeepsValue(t, val) ==
    IF t.enabled
    THEN [t |-> t, res |-> Panic]
    ELSE [t |-> [t EXCEPT !.loadval = Some(And32(val, t.wrapmask))], res |-> Ok(U32Zero)]

\* Timer::w32, offset 0x00 (Load)
WriteLoad(t, val) ==
    IF t.enabled
    THEN [t |-> t, res |-> Panic]
    ELSE LET v == And32(val, t.wrapmask)
         IN  [t |-> [t EXCEPT !.loadval = Some(v), !.val = v], res |-> Ok(U32Zero)]

\* mutant of WriteControl: enabling keeps the fraction left in the accumulator
WriteControl_KeepsFraction(t, val) ==
    LET en == TestBit(val, 7)
        t1 == [t EXCEPT !.clksel = IF TestBit(val, 3) THEN "Khz508" ELSE "Khz2",
                        !.mode = IF TestBit(val, 6) THEN "Periodic" ELSE "FreeRunning",
                        !.enabled = en]
    IN  [t |-> IF ~en THEN [t1 EXCEPT !.loadval = None] ELSE t1, res |-> Ok(U32Zero)]

\* mutant of WriteControl: disabling keeps the load value
WriteControl_KeepsLoad(t, val) ==
    LET en == TestBit(val, 7)
        t1 == [t EXCEPT !.clksel = IF TestBit(val, 3) THEN "Khz508" ELSE "Khz2",
                        !.mode = IF TestBit(val, 6) THEN "Periodic" ELSE "FreeRunning",
                        !.enabled = en]
    IN  [t |-> IF en /\ ~t.enabled THEN [t1 EXCEPT !.microticks = 0] ELSE t1,
         res |-> Ok(U32Zero)]

\* Timer::w32, offset 0x08 (Control)
WriteControl(t, val) ==
    LET en == TestBit(val, 7)
        t1 == [t EXCEPT !.clksel = IF TestBit(val, 3) THEN "Khz508" ELSE "Khz2",
                        !.mode = IF TestBit(val, 6) THEN "Periodic" ELSE "FreeRunning",
                        !.enabled = en]
        t2 == IF en /\ ~t.enabled THEN [t1 EXCEPT !.microticks = 0] ELSE t1
        t3 == IF ~en THEN [t2 EXCEPT !.loadval = None] ELSE t2
    IN  [t |-> t3, res |-> Ok(U32Zero)]

\* the match of Timer::w32, after update_regs
TimerWrite(t, offset, val) ==
    CASE offset = 0  -> WriteLoad(t, val)
      [] offset = 4  -> [t |-> t, res |-> Panic]
      [] offset = 8  -> WriteControl(t, val)
      [] offset = 12 -> [t |-> t, res |-> Err("Unimplemented")]
      [] OTHER       -> [t |-> t, res |-> Err("Unexpected")]

\* register offsets the bus hands to the timer (0x10 is not a register)
TimerOffsets == {0, 4, 8, 12, 16}

\* values written to Load: two small ones, and all ones (beyond 16 bits)
LoadVals == {<<0, 5>>, <<0, 200>>, U32Max}

\* values written to Control: every combination of bits 3, 6 and 7, and one
\* with every other bit set
ControlVals == {FromNat(8 * c + 64 * m + 128 * e) : c \in 0..1, m \in 0..1, e \in 0..1}
                 \cup {<<Half - 1, Half - 1 - 200>>}

\* the access history the properties refer to
HistInit ==
    [ coupled      |-> None,
      epoch        |-> [active |-> FALSE, t0 |-> 0, v0 |-> U32Zero, leftover |-> 0],
      load_written |-> FALSE ]

\* the history after a w32 call: `before` is the timer after update_regs,
\* `w` the outcome of the write
\*   coupled:      the value of the latest w32 call, when that was a Load
\*                 write that succeeded
\*   epoch:        the instant, the counter and the left-over fraction of the
\*                 latest disabled-to-enabled transition, while no w32 call
\*                 followed it
\*   load_written: a Load write succeeded, and no enabled-to-disabled
\*                 transition followed it
HistWrite(h, before, w, offset, val) ==
    LET enabling == offset = 8 /\ w.res.kind = "Ok" /\ w.t.enabled /\ ~before.enabled
        disabling == offset = 8 /\ w.res.kind = "Ok" /\ ~w.t.enabled /\ before.enabled
    IN  [ coupled |-> IF offset = 0 /\ w.res.kind = "Ok" THEN Some(val) ELSE None,
          epoch |-> IF enabling
                    THEN [active |-> TRUE, t0 |-> w.t.last_time, v0 |-> w.t.val,
                          leftover |-> before.microticks]
                    ELSE HistInit.epoch,
          load_written |-> IF offset = 0 /\ w.res.kind = "Ok" THEN TRUE
                           ELSE IF disabling THEN FALSE
                           ELSE h.load_written ]

TimerInit ==
    /\ timer \in {TimerNew(b) : b \in TimerBits}
    /\ tpc = "running"
    /\ tret = [op |-> "new", offset |-> 0, d |-> 0, res |-> Ok(U32Zero)]
    /\ thist = HistInit

\* Timer::r32, with Instant::now() reading d nanoseconds after last_time
TimerR32(offset, d) ==
    /\ tpc = "running"
    /\ timer.last_time + d <= MaxNow
    /\ \E u \in UpdateOutcomes(timer, timer.last_time + d) :
       \E res \in {IF u.panic THEN Panic ELSE TimerRead(u.t, offset)} :
           /\ timer' = u.t
           /\ tret' = [op |-> "r32", offset |-> offset, d |-> d, res |-> res]
           /\ tpc' = IF res.kind = "Panic" THEN "aborted" ELSE "running"
    /\ UNCHANGED <<thist, vicVars>>

\* mutant of TimerW32: the register is written before the lazy update runs
TimerW32_WriteFirst(offset, val, d) ==
    /\ tpc = "running"
    /\ timer.last_time + d <= MaxNow
    /\ \E w \in {TimerWrite(timer, offset, val)} :
       \E u \in (IF w.res.kind = "Panic"
                 THEN {[t |-> [w.t EXCEPT !.last_time = timer.last_time + d],
                        panic |-> TRUE]}
                 ELSE UpdateOutcomes(w.t, timer.last_time + d)) :
           /\ timer' = u.t
           /\ tret' = [op |-> "w32", offset |-> offset, d |-> d,
                       res |-> IF u.panic THEN Panic ELSE w.res]
           /\ tpc' = IF u.panic THEN "aborted" ELSE "running"
           /\ thist' = HistWrite(thist, timer, w, offset, val)
    /\ UNCHANGED vicVars

\* Timer::w32, with Instant::now() reading d nanoseconds after last_time
TimerW32(offset, val, d) ==
    /\ tpc = "running"
    /\ timer.last_time + d <= MaxNow
    /\ \E u \in UpdateOutcomes(timer, timer.last_time + d) :
       \E w \in {IF u.panic THEN [t |-> u.t, res |-> Panic]
                 ELSE TimerWrite(u.t, offset, val)} :
           /\ timer' = w.t
           /\ tret' = [op |-> "w32", offset |-> offset, d |-> d, res |-> w.res]
           /\ tpc' = IF w.res.kind = "Panic" THEN "aborted" ELSE "running"
           /\ thist' = HistWrite(thist, u.t, w, offset, val)
    /\ UNCHANGED vicVars

\* the values a write carries, by register
TimerWriteVals(offset) ==
    CASE offset = 0 -> LoadVals
      [] offset = 8 -> ControlVals
      [] OTHER -> {U32Max}

TimerNext ==
    \/ \E offset \in TimerOffsets, d \in DtSet : TimerR32(offset, d)
    \/ \E offset \in TimerOffsets, d \in DtSet :
          \E val \in TimerWriteVals(offset) : TimerW32(offset, val, d)

----------------------------------------------------------------------------
(* Vic *)

\* the vector table has 16 slots
VectorSlots == 0..15

\* VectorEntry::default
VectorEntryDefault == [source |-> 0, isr_addr |-> U32Zero, enabled |-> FALSE]

\* Vic::new
VicNew ==
    [ status          |-> U32Zero,
      enabled         |-> U32Zero,
      select          |-> U32Zero,
      software_status |-> U32Zero,
      default_isr     |-> U32Zero,
      vector_entries  |-> [i \in VectorSlots |-> VectorEntryDefault] ]

rawstatus(v) == Or32(v.software_status, v.status)

\* mutant of enabled_active_interrupts: the enabled mask is not applied
enabled_active_interrupts_IgnoresMask(v) == rawstatus(v)
enabled_active_interrupts(v) == And32(rawstatus(v), v.enabled)

\* the lines pending as IRQ and as FIQ
IrqLines(v) == And32(enabled_active_interrupts(v), Not32(v.select))
FiqLines(v) == And32(enabled_active_interrupts(v), v.select)

\* mutant of irq: the select mask is forgotten
irq_IgnoresSelect(v) == enabled_active_interrupts(v) # U32Zero

irq(v) == IrqLines(v) # U32Zero

fiq(v) == FiqLines(v) # U32Zero

\* mutant of EntryMatches: the enabled flag of the slot is not looked at
EntryMatches_IgnoresEnabled(entry, irqs) ==
    And32(irqs, Shl1(entry.source)) # U32Zero

\* the closure of find_map: whether `entry` serves one of `irqs`
EntryMatches(entry, irqs) ==
    entry.enabled /\ And32(irqs, Shl1(entry.source)) # U32Zero

\* vector_entries.iter().find_map(..).unwrap_or(default_isr), from slot i on
RECURSIVE FindMap(_, _, _)
FindMap(v, irqs, i) ==
    IF i \notin VectorSlots THEN v.default_isr
    ELSE IF EntryMatches(v.vector_entries[i], irqs) THEN v.vector_entries[i].isr_addr
    ELSE FindMap(v, irqs, i + 1)

\* mutant of FindMap: a later matching slot replaces an earlier one
RECURSIVE FindLast(_, _, _)
FindLast(v, irqs, i) ==
    IF i \notin VectorSlots THEN v.default_isr
    ELSE IF EntryMatches(v.vector_entries[i], irqs) THEN v.vector_entries[i].isr_addr
    ELSE FindLast(v, irqs, i - 1)

isr_address_LowestPriority(v) ==
    IF fiq(v) \/ ~irq(v)
    THEN v.default_isr
    ELSE FindLast(v, IrqLines(v), 15)

\* mutant of isr_address: a pending FIQ does not force the default address
isr_address_IgnoresFiq(v) ==
    IF ~irq(v)
    THEN v.default_isr
    ELSE FindMap(v, IrqLines(v), 0)

isr_address(v) ==
    IF fiq(v) \/ ~irq(v)
    THEN v.default_isr
    ELSE FindMap(v, IrqLines(v), 0)

\* Vic::assert_interrupt and Vic::clear_interrupt
assert_interrupt(v, source) == [v EXCEPT !.status = Or32(v.status, Shl1(source))]

\* mutant of clear_interrupt: the software assertion of the line goes as well
clear_interrupt_ClearsSoftware(v, source) ==
    [v EXCEPT !.status = And32(v.status, Not32(Shl1(source))),
              !.software_status = And32(v.software_status, Not32(Shl1(source)))]
clear_interrupt(v, source) == [v EXCEPT !.status = And32(v.status, Not32(Shl1(source)))]

\* the slot a VectAddrX / VectCntlX offset addresses
SlotIndex(offset, base) == (offset - base) \div 4

\* VectCntlX as r32 packs it
VectCntlWord(entry) == FromNat((IF entry.enabled THEN 32 ELSE 0) + entry.source)

\* Vic::r32
VicRead(v, offset) ==
    CASE offset = 0  -> Ok(IrqLines(v))
      [] offset = 4  -> Ok(FiqLines(v))
      [] offset = 8  -> Ok(rawstatus(v))
      [] offset = 12 -> Ok(v.select)
      [] offset = 16 -> Ok(v.enabled)
      [] offset = 20 -> Err("InvalidAccess")
      [] offset = 24 -> Ok(v.software_status)
      [] offset = 28 -> Err("InvalidAccess")
      [] offset = 32 -> Err("StubRead")
      [] offset = 48 -> Ok(isr_address(v))
      [] offset = 52 -> Ok(v.default_isr)
      [] offset \in 256..316 -> Ok(v.vector_entries[SlotIndex(offset, 256)].isr_addr)
      [] offset \in 512..572 -> Ok(VectCntlWord(v.vector_entries[SlotIndex(offset, 512)]))
      [] offset = 4064 -> Ok(FromNat(144))
      [] offset = 4068 -> Ok(FromNat(17))
      [] offset = 4072 -> Ok(FromNat(4))
      [] offset = 4076 -> Ok(FromNat(0))
      [] OTHER -> Err("Unexpected")

\* mutant of WriteVectCntl: the source field is taken four bits wide
WriteVectCntl_NarrowSource(v, index, val) ==
    [v EXCEPT !.vector_entries[index].enabled = And32(val, FromNat(32)) # U32Zero,
              !.vector_entries[index].source = And32(val, FromNat(15))[2]]

\* Vic::w32, offsets 0x200..=0x23c
WriteVectCntl(v, index, val) ==
    [v EXCEPT !.vector_entries[index].enabled = And32(val, FromNat(32)) # U32Zero,
              !.vector_entries[index].source = And32(val, FromNat(31))[2]]

\* mutant of WriteReadOnly: the write acknowledges the written lines
WriteReadOnly_ClearsStatus(v, val) ==
    [v |-> [v EXCEPT !.status = And32(v.status, Not32(val))], res |-> Ok(U32Zero)]

\* Vic::w32 on a read-only register (IRQStatus, FIQStatus, RawIntr, PeriphID)
WriteReadOnly(v, val) == [v |-> v, res |-> Err("InvalidAccess")]

\* Vic::w32
VicWrite(v, offset, val) ==
    CASE offset \in {0, 4, 8} -> WriteReadOnly(v, val)
      [] offset = 12 -> [v |-> [v EXCEPT !.select = val], res |-> Ok(U32Zero)]
      [] offset = 16 -> [v |-> [v EXCEPT !.enabled = val], res |-> Ok(U32Zero)]
      [] offset = 20 -> [v |-> [v EXCEPT !.enabled = And32(v.enabled, Not32(val))],
                         res |-> Ok(U32Zero)]
      [] offset = 24 -> [v |-> [v EXCEPT !.software_status = Or32(v.software_status, val)],
                         res |-> Ok(U32Zero)]
      [] offset = 28 -> [v |-> [v EXCEPT !.software_status =
                                            And32(v.software_status, Not32(val))],
                         res |-> Ok(U32Zero)]
      [] offset = 32 -> [v |-> v, res |-> Err("StubWrite")]
      [] offset = 48 -> [v |-> v, res |-> Ok(U32Zero)]
      [] offset = 52 -> [v |-> [v EXCEPT !.default_isr = val], res |-> Ok(U32Zero)]
      [] offset \in 256..316 ->
            [v |-> [v EXCEPT !.vector_entries[SlotIndex(offset, 256)].isr_addr = val],
             res |-> Ok(U32Zero)]
      [] offset \in 512..572 ->
            [v |-> WriteVectCntl(v, SlotIndex(offset, 512), val), res |-> Ok(U32Zero)]
      [] offset \in {4064, 4068, 4072, 4076} -> WriteReadOnly(v, val)
      [] OTHER -> [v |-> v, res |-> Err("Unexpected")]

\* the interrupt sources the devices assert and clear in hardware
VicSources == {0, 31}

\* the two lines the registers are written with: line 0 and line 31
Line0 == Shl1(0)
Line31 == Shl1(31)
BothLines == Or32(Line0, Line31)

\* register offsets the bus hands to the controller: every register, the
\* first and the last vector slot, an offset inside the word of VectCntl0
\* (0x202), and two offsets that are no register (0x24 and 0x140, the first
\* offset past VectAddr15)
VicOffsets == {0, 4, 8, 12, 16, 20, 24, 28, 32, 48, 52,
               256, 316, 512, 514, 572, 4064, 4068, 4072, 4076,
               36, 320}

\* the values a write carries, by register
VicWriteVals(offset) ==
    CASE offset = 12 -> {U32Zero, Line31}
      [] offset = 16 -> {BothLines}
      [] offset = 20 -> {Line31}
      [] offset \in {24, 28} -> {BothLines}
      [] offset = 52 -> {FromNat(8192)}
      [] offset \in 256..316 -> {FromNat(4096)}
      \* enabled with source 0, enabled with source 31, and disabled with
      \* every bit above bit 5 set
      [] offset \in 512..572 -> {FromNat(32), FromNat(63), <<Half - 1, Half - 64>>}
      [] OTHER -> {Line31}

VicInit ==
    /\ vic = VicNew
    /\ vret = [op |-> "new", offset |-> 0, val |-> U32Zero, res |-> Ok(U32Zero)]

AssertInterrupt(source) ==
    /\ vic' = assert_interrupt(vic, source)
    /\ vret' = [op |-> "assert", offset |-> source, val |-> U32Zero, res |-> Ok(U32Zero)]
    /\ UNCHANGED timerVars

ClearInterrupt(source) ==
    /\ vic' = clear_interrupt(vic, source)
    /\ vret' = [op |-> "clear", offset |-> source, val |-> U32Zero, res |-> Ok(U32Zero)]
    /\ UNCHANGED timerVars

VicR32(offset) ==
    /\ vret' = [op |-> "r32", offset |-> offset, val |-> U32Zero,
                res |-> VicRead(vic, offset)]
    /\ UNCHANGED <<vic, timerVars>>

VicW32(offset, val) ==
    /\ LET w == VicWrite(vic, offset, val)
       IN  /\ vic' = w.v
           /\ vret' = [op |-> "w32", offset |-> offset, val |-> val, res |-> w.res]
    /\ UNCHANGED timerVars

VicNext ==
    \/ \E source \in VicSources : AssertInterrupt(source)
    \/ \E source \in VicSources : ClearInterrupt(source)
    \/ \E offset \in VicOffsets : VicR32(offset)
    \/ \E offset \in VicOffsets : \E val \in VicWriteVals(offset) : VicW32(offset, val)

----------------------------------------------------------------------------
(* Specifications: the two devices share no state and are checked apart *)

\* the timer (16-bit or 32-bit), with the controller left as created
InitTimerSpec == TimerInit /\ VicInit

TimerSpec == InitTimerSpec /\ [][TimerNext]_vars

\* the controller, with a 16-bit timer left as created
InitVicSpec == TimerInit /\ timer = TimerNew(16) /\ VicInit

VicSpec == InitVicSpec /\ [][VicNext]_vars

----------------------------------------------------------------------------
(* Properties *)

\* bit b of a u32, read off its halves
BitOf(w, b) ==
    IF b < 16 THEN (w[2] \div 2^b) % 2 = 1 ELSE (w[1] \div 2^(b - 16)) % 2 = 1

\* a u32 reduced to the width of the timer
Reduced(w) == <<w[1] % (timer.wrapmask[1] + 1), w[2] % (timer.wrapmask[2] + 1)>>

TimerDid(op, offset) == tret.op = op /\ tret.offset = offset
VicDid(op, offset) == vret.op = op /\ vret.offset = offset

\* line b is asserted, enabled and routed to IRQ / to FIQ
Asserted(b) == BitOf(vic.status, b) \/ BitOf(vic.software_status, b)
PendingIrq(b) == Asserted(b) /\ BitOf(vic.enabled, b) /\ ~BitOf(vic.select, b)
PendingFiq(b) == Asserted(b) /\ BitOf(vic.enabled, b) /\ BitOf(vic.select, b)
Lines == 0..31

\* slot i is enabled and its source is pending as an IRQ
SlotServes(i) ==
    vic.vector_entries[i].enabled /\ PendingIrq(vic.vector_entries[i].source)

\* C1 (as claimed): every value a Value read (0x04) returns lies within
\* [0, 2^bits - 1].
C1_ValueWithinWidth ==
    (TimerDid("r32", 4) /\ tret.res.kind = "Ok") => Ge32(timer.wrapmask, tret.res.val)

\* C2: irq() is true iff some line is asserted (hardware or software),
\* enabled and not selected; fiq() iff some line is asserted, enabled and
\* selected; a read of IRQStatus / FIQStatus succeeds and is non-zero exactly
\* when irq() / fiq() is true.
C2_Routing ==
    /\ irq(vic) <=> \E b \in Lines : PendingIrq(b)
    /\ fiq(vic) <=> \E b \in Lines : PendingFiq(b)
    /\ VicDid("r32", 0) =>
          /\ vret.res.kind = "Ok"
          /\ vret.res.val # U32Zero <=> irq(vic)
    /\ VicDid("r32", 4) =>
          /\ vret.res.kind = "Ok"
          /\ vret.res.val # U32Zero <=> fiq(vic)

\* an IRQStatus read that is non-zero while an IRQ and an FIQ are pending on
\* different lines
C2_Witness ==
    /\ VicDid("r32", 0)
    /\ vret.res.val # U32Zero
    /\ irq(vic) /\ fiq(vic)

\* C3 (as claimed): with two enabled slots mapped to different asserted
\* sources, a VectAddr read while an IRQ is pending returns the ISR address
\* of the slot with the lower index.
C3_AsClaimed ==
    (VicDid("r32", 48) /\ irq(vic)) =>
        \A i, j \in VectorSlots :
            ( /\ i < j
              /\ vic.vector_entries[i].enabled /\ vic.vector_entries[j].enabled
              /\ vic.vector_entries[i].source # vic.vector_entries[j].source
              /\ Asserted(vic.vector_entries[i].source)
              /\ Asserted(vic.vector_entries[j].source) )
            => vret.res = Ok(vic.vector_entries[i].isr_addr)

\* C3 (amended): with two enabled slots mapped to different sources that are
\* both pending as IRQs (asserted, enabled in the mask, not routed to FIQ),
\* and no enabled slot of still lower index serving a pending IRQ, a VectAddr
\* read while no FIQ is pending returns the ISR address of the slot with the
\* lower index.
C3_VectorPriority ==
    (VicDid("r32", 48) /\ ~fiq(vic)) =>
        \A i, j \in VectorSlots :
            ( /\ i < j
              /\ SlotServes(i) /\ SlotServes(j)
              /\ vic.vector_entries[i].source # vic.vector_entries[j].source
              /\ \A k \in VectorSlots : k < i => ~SlotServes(k) )
            => vret.res = Ok(vic.vector_entries[i].isr_addr)

\* a VectAddr read that returned the lower slot's address, which is neither
\* the higher slot's nor the default address
C3_Witness ==
    /\ VicDid("r32", 48)
    /\ ~fiq(vic)
    /\ \E i, j \in VectorSlots :
          /\ i < j
          /\ SlotServes(i) /\ SlotServes(j)
          /\ vic.vector_entries[i].source # vic.vector_entries[j].source
          /\ vret.res = Ok(vic.vector_entries[i].isr_addr)
          /\ vic.vector_entries[i].isr_addr # vic.vector_entries[j].isr_addr
          /\ vic.vector_entries[i].isr_addr # vic.default_isr

\* C4: a VectAddr read returns the default vector address when no IRQ is
\* pending, when an FIQ is pending (whatever IRQ is pending with it), and
\* when an IRQ is pending but no enabled slot is mapped to a pending IRQ
\* source.
C4_DefaultFallback ==
    ( /\ VicDid("r32", 48)
      /\ \/ ~ \E b \in Lines : PendingIrq(b)
         \/ \E b \in Lines : PendingFiq(b)
         \/ ~ \E i \in VectorSlots : SlotServes(i) )
    => vret.res = Ok(vic.default_isr)

\* a VectAddr read that returned the default address while an FIQ was
\* pending together with an IRQ that an enabled slot serves at another address
C4_Witness ==
    /\ VicDid("r32", 48)
    /\ \E b \in Lines : PendingFiq(b)
    /\ \E i \in VectorSlots :
          SlotServes(i) /\ vic.vector_entries[i].isr_addr # vic.default_isr
    /\ vret.res = Ok(vic.default_isr)

\* C5: after a Load write of N to a disabled timer, and until the next
\* write, the timer stays disabled, and a read of Load and a read of Value
\* both return N reduced to the width of the timer, whatever time elapsed.
C5_LoadValueCoupling ==
    thist.coupled # None =>
        /\ ~timer.enabled
        /\ tpc = "running"
        /\ (TimerDid("r32", 0) \/ TimerDid("r32", 4)) =>
              tret.res = Ok(Reduced(thist.coupled[1]))

\* a Value read, some time into the run, that returned the 16 low bits of
\* the all-ones value written to Load
C5_Witness ==
    /\ thist.coupled = Some(U32Max)
    /\ TimerDid("r32", 4)
    /\ tret.res = Ok(<<0, Half - 1>>)
    /\ timer.last_time > 0

\* the microticks of the time elapsed since the latest enable, at the rate
\* of the selected clock (2 kHz or 508 kHz), and the whole ticks in them
SinceEnable == timer.last_time - thist.epoch.t0
MicroticksSinceEnable == SinceEnable * (IF timer.clksel = "Khz508" THEN 508 ELSE 2)
TicksSinceEnable == MicroticksSinceEnable \div 1000000

\* C6: a Control write that takes the timer from disabled to enabled zeroes
\* the accumulator: until the next write the accumulator holds the fraction
\* of the time elapsed since the enable alone, and the counter, as long as
\* it has not passed zero, has gone down by
\* floor(elapsed_ns * clock_khz / 1,000,000), whatever fraction was left in
\* the accumulator before the enable (the counter being compared within the
\* width of the timer).
C6_EnableClearsFraction ==
    thist.epoch.active =>
        /\ timer.enabled
        /\ timer.microticks = MicroticksSinceEnable % 1000000
        /\ Ge32(thist.epoch.v0, FromNat(TicksSinceEnable)) =>
              /\ tpc = "running" \/ TimerDid("r32", 0)
              /\ Reduced(timer.val) =
                    Reduced(wrapping_sub(thist.epoch.v0, FromNat(TicksSinceEnable)))

\* a Value read after an enable that found a fraction left in the
\* accumulator, with at least one tick charged since
C6_Witness ==
    /\ thist.epoch.active
    /\ thist.epoch.leftover > 0
    /\ TimerDid("r32", 4)
    /\ TicksSinceEnable > 0
    /\ tret.res = Ok(wrapping_sub(thist.epoch.v0, FromNat(TicksSinceEnable)))

\* C7: the accumulator stays within 0..999,999; and for a timer enabled in
\* free-running mode with value v0 and not written since, a Value read at
\* time T after the enable returns
\* (v0 - floor(T_ns * clock_khz / 1,000,000)) mod 2^bits, however many
\* reads happened in between.
C7_FreeRunningDecay ==
    /\ timer.microticks \in 0..999999
    /\ (thist.epoch.active /\ timer.mode = "FreeRunning" /\ TimerDid("r32", 4)) =>
          tret.res = Ok(Reduced(wrapping_sub(thist.epoch.v0, FromNat(TicksSinceEnable))))

\* a Value read of a 2 kHz free-running timer enabled at value 0, one tick
\* (two half-tick intervals) later: the counter has wrapped to all ones
C7_Witness ==
    /\ thist.epoch.active
    /\ timer.mode = "FreeRunning" /\ timer.clksel = "Khz2"
    /\ thist.epoch.v0 = U32Zero
    /\ SinceEnable = 500000
    /\ TimerDid("r32", 4)
    /\ tret.res = Ok(timer.wrapmask)

\* C8: the load value is present only if a Load write succeeded and no
\* enabled-to-disabled Control write followed it; a Load read returns the
\* load value when present and is fatal when absent, so it is fatal on a
\* fresh timer and after a disable until Load is written again.
C8_DisableClearsLoad ==
    /\ ~thist.load_written => timer.loadval = None
    /\ TimerDid("r32", 0) =>
          /\ tret.res.kind \in {"Ok", "Panic"}
          /\ tret.res.kind = "Ok" => thist.load_written /\ timer.loadval = Some(tret.res.val)
          /\ ~thist.load_written => tret.res = Panic /\ tpc = "aborted"

\* a fatal Load read on a disabled timer whose counter still holds the value
\* 5 written to Load before the timer was enabled and disabled again
C8_Witness ==
    /\ TimerDid("r32", 0)
    /\ tret.res = Panic
    /\ ~thist.load_written
    /\ ~timer.enabled
    /\ timer.val = <<0, 5>>

\* C9: a Load write to an enabled timer is fatal and stores nothing; a Load
\* write to a disabled timer succeeds and stores the value reduced to the
\* width; the load value never changes between two states in which the
\* timer is enabled.
C9_LoadWriteGuardState ==
    TimerDid("w32", 0) =>
        /\ timer.enabled => tret.res = Panic /\ tpc = "aborted"
        /\ ~timer.enabled =>
              /\ tret.res.kind = "Ok" /\ tpc = "running"
              /\ thist.coupled # None
              /\ timer.loadval = Some(Reduced(thist.coupled[1]))

C9_LoadWriteFatalWhileEnabled ==
    /\ []C9_LoadWriteGuardState
    /\ [][(timer.enabled /\ timer'.enabled) => timer'.loadval = timer.loadval]_vars

\* a Load write that aborted on an enabled timer holding a load value
C9_Witness ==
    /\ TimerDid("w32", 0)
    /\ timer.enabled
    /\ tret.res = Panic
    /\ timer.loadval # None

\* the register map of the controller (section 4.2), by byte offset
ReadOnlyOffsets == {0, 4, 8, 4064, 4068, 4072, 4076}
WriteOnlyOffsets == {20, 28}
ProtectionOffset == 32
ListedOffsets ==
    {0, 4, 8, 12, 16, 20, 24, 28, 32, 48, 52} \cup (256..316) \cup (512..572)
        \cup {4064, 4068, 4072, 4076}

\* C10: a write to a read-only register and a read of a write-only register
\* return invalid access, an access to Protection returns a stub, an access
\* to an unlisted offset returns unexpected address, and none of them
\* changes any field of the controller.
C10_ErrorAccessFrame ==
    [][ LET op == vret'.op
            offset == vret'.offset
            kind == vret'.res.kind
        IN  /\ (op = "w32" /\ offset \in ReadOnlyOffsets) =>
                  kind = "InvalidAccess" /\ vic' = vic
            /\ (op = "r32" /\ offset \in WriteOnlyOffsets) =>
                  kind = "InvalidAccess" /\ vic' = vic
            /\ (op = "r32" /\ offset = ProtectionOffset) =>
                  kind = "StubRead" /\ vic' = vic
            /\ (op = "w32" /\ offset = ProtectionOffset) =>
                  kind = "StubWrite" /\ vic' = vic
            /\ (op \in {"r32", "w32"} /\ offset \notin ListedOffsets) =>
                  kind = "Unexpected" /\ vic' = vic
      ]_vars

\* a refused write to RawIntr while line 31 is asserted in hardware
C10_Witness ==
    /\ VicDid("w32", 8)
    /\ vret.res.kind = "InvalidAccess"
    /\ BitOf(vic.status, 31)

\* C11: a read of VectAddr (0x30) returns the default vector address or the
\* ISR address of a slot that is enabled at the time of the read and whose
\* source is asserted (by hardware or software), enabled in the mask and
\* routed to IRQ; a slot whose enabled flag is clear accounts for no result.
C11_VectorResolutionSafety ==
    VicDid("r32", 48) =>
        \/ vret.res = Ok(vic.default_isr)
        \/ \E i \in VectorSlots :
              SlotServes(i) /\ vret.res = Ok(vic.vector_entries[i].isr_addr)

\* a VectAddr read that passed over slot 0, disabled while its source was
\* pending as an IRQ, and returned the address of the serving slot 15
C11_Witness ==
    /\ VicDid("r32", 48)
    /\ ~vic.vector_entries[0].enabled
    /\ PendingIrq(vic.vector_entries[0].source)
    /\ SlotServes(15)
    /\ vic.vector_entries[0].isr_addr # vic.vector_entries[15].isr_addr
    /\ vic.vector_entries[15].isr_addr # vic.default_isr
    /\ vret.res = Ok(vic.vector_entries[15].isr_addr)

\* the ticks that the lazy update of the step at hand charges: the time
\* since the last sample at the clock rate in force before the access, on
\* top of the fraction carried over
StepElapsed == timer'.last_time - timer.last_time
StepTicks ==
    FromNat((StepElapsed * (IF timer.clksel = "Khz508" THEN 508 ELSE 2)
             + timer.microticks) \div 1000000)

\* C12: on an enabled periodic timer whose load value is set, the lazy
\* update of an access leaves value = old value - ticks when old value >=
\* ticks, and value = load value - (ticks - old value) otherwise.
C12_PeriodicUpdate ==
    [][ (timer.enabled /\ timer.mode = "Periodic" /\ timer.loadval # None) =>
            IF Ge32(timer.val, StepTicks)
            THEN timer'.val = wrapping_sub(timer.val, StepTicks)
            ELSE LET remaining == wrapping_sub(StepTicks, timer.val)
                 IN  /\ Ge32(timer.loadval[1], remaining)
                     /\ timer'.val = wrapping_sub(timer.loadval[1], remaining)
      ]_vars

\* C13: on an enabled periodic timer whose load value is absent, an access
\* whose lazy update charges more ticks than the current value aborts the
\* program; an access whose ticks do not exceed the value decrements the
\* value by them and proceeds to its register, the load value not consulted
\* by the update (only a register access that panics by itself still does).
C13_UnsetLoadReloadFatal ==
    [][ (timer.enabled /\ timer.mode = "Periodic" /\ timer.loadval = None) =>
            IF ~Ge32(timer.val, StepTicks)
            THEN tpc' = "aborted" /\ tret'.res = Panic
            ELSE /\ timer'.val = wrapping_sub(timer.val, StepTicks)
                 /\ (tret'.op = "r32" /\ tret'.offset = 4) =>
                        tret'.res = Ok(wrapping_sub(timer.val, StepTicks))
                 /\ ( \/ tret'.op = "r32" /\ tret'.offset \in {4, 8}
                      \/ tret'.op = "w32" /\ tret'.offset = 8 )
                    => (tret'.res.kind = "Ok" /\ tpc' = "running")
      ]_vars

\* a Value read that aborted on a periodic timer without load value, 127
\* ticks after an access that had taken the value from 200 to 73 unharmed
C13_Witness ==
    /\ tpc = "aborted"
    /\ TimerDid("r32", 4)
    /\ tret.d = 250000
    /\ tret.res = Panic
    /\ timer.enabled /\ timer.mode = "Periodic" /\ timer.clksel = "Khz508"
    /\ timer.loadval = None
    /\ timer.val = <<0, 73>>

\* C14: an access to a disabled timer only moves the last-sample instant to
\* the time of the access: the value and the accumulator are what they were
\* (a Load write alone sets the value, an enabling Control write alone
\* zeroes the accumulator), so the time that elapsed while disabled is gone
\* when the timer is enabled: the next update counts from the new instant,
\* from the same value and from an empty accumulator.
C14_NoDecayWhileDisabled ==
    [][ ~timer.enabled =>
            /\ timer'.last_time = timer.last_time + tret'.d
            /\ tret'.op = "r32" =>
                  timer' = [timer EXCEPT !.last_time = timer.last_time + tret'.d]
            /\ (tret'.op = "r32" /\ tret'.offset = 4) => tret'.res = Ok(timer.val)
            /\ (tret'.op = "w32" /\ tret'.offset = 0) \/ timer'.val = timer.val
            /\ timer'.microticks = (IF timer'.enabled THEN 0 ELSE timer.microticks)
      ]_vars

\* a Value read of a disabled timer 300,000 ns after the access before it:
\* the value 5 and the half tick left by an earlier enabled phase are kept
C14_Witness ==
    /\ ~timer.enabled
    /\ TimerDid("r32", 4)
    /\ tret.d = 300000
    /\ tret.res = Ok(<<0, 5>>)
    /\ timer.microticks = 500000
    /\ timer.last_time = 550000

\* the fraction the lazy update of the step at hand leaves in the accumulator
StepFraction ==
    (StepElapsed * (IF timer.clksel = "Khz508" THEN 508 ELSE 2)
     + timer.microticks) % 1000000

\* whether the decay of the step at hand has one outcome in every build, and
\* that outcome: computed from the mode, the clock rate and the enabled flag
\* of the state before the access
StepReloads == timer.enabled /\ timer.mode = "Periodic" /\ ~Ge32(timer.val, StepTicks)
StepDecayed ==
    IF ~timer.enabled THEN timer.val
    ELSE IF timer.mode = "FreeRunning"
    THEN Reduced(wrapping_sub(timer.val, StepTicks))
    ELSE IF Ge32(timer.val, StepTicks) THEN wrapping_sub(timer.val, StepTicks)
    ELSE wrapping_sub(timer.loadval[1], wrapping_sub(StepTicks, timer.val))

\* C15: every read and write first applies the decay for the time elapsed
\* since the last sample, at the clock rate, mode and enabled flag in force
\* before the access, and then accesses the register: a Value read returns
\* the decayed value; a Control write leaves the value decayed at the old
\* rate and mode, also when it disables the timer, and only then installs
\* the new rate, mode and enabled flag; a Load write that is refused on an
\* enabled timer has decayed it all the same. Where the periodic reload has
\* no load value or underflows, the access aborts in the update or leaves
\* the wrapped difference.
C15_UpdatePrecedesAccess ==
    [][ /\ timer'.last_time = timer.last_time + tret'.d
        /\ IF StepReloads /\ timer.loadval = None
           THEN tpc' = "aborted" /\ tret'.res = Panic /\ timer'.val = timer.val
           ELSE IF /\ StepReloads
                   /\ ~Ge32(timer.loadval[1], wrapping_sub(StepTicks, timer.val))
           THEN \/ tpc' = "aborted" /\ tret'.res = Panic /\ timer'.val = timer.val
                \/ timer'.val = StepDecayed
           ELSE /\ (tret'.op = "w32" /\ tret'.offset = 0 /\ tret'.res.kind = "Ok")
                   \/ timer'.val = StepDecayed
                /\ (tret'.op = "r32" /\ tret'.offset = 4) => tret'.res = Ok(StepDecayed)
                /\ (tret'.op = "w32" /\ tret'.offset = 0) =>
                      (tret'.res.kind = "Ok") = ~timer.enabled
        /\ timer'.microticks =
              IF ~timer.enabled
              THEN (IF timer'.enabled THEN 0 ELSE timer.microticks)
              ELSE StepFraction
      ]_vars

\* a Control write that selects 2 kHz and disables a 508 kHz periodic timer
\* 250,000 ns after it was enabled at value 200: the 127 ticks of that time
\* are charged at the old rate before the timer stops
C15_Witness ==
    /\ TimerDid("w32", 8)
    /\ tret.d = 250000
    /\ timer.last_time = 250000
    /\ ~timer.enabled
    /\ timer.clksel = "Khz2"
    /\ timer.val = <<0, 73>>
    /\ timer.microticks = 0

\* C16: assert(source) sets and clear(source) clears bit `source` of the
\* hardware status and nothing else: the other hardware bits, the software
\* status, the enabled mask, the select mask, the default vector address
\* and the vector table stay as they were. clear leaves a software-asserted
\* line asserted: a RawIntr read shows a line exactly while its hardware
\* bit or its software bit is set.
C16_HardwareLineFrame ==
    /\ [](VicDid("r32", 8) =>
             \A b \in Lines : BitOf(vret.res.val, b) <=> Asserted(b))
    /\ [][ vret'.op \in {"assert", "clear"} =>
              /\ BitOf(vic'.status, vret'.offset) <=> (vret'.op = "assert")
              /\ \A b \in Lines \ {vret'.offset} :
                    BitOf(vic'.status, b) <=> BitOf(vic.status, b)
              /\ vic'.software_status = vic.software_status
              /\ vic'.enabled = vic.enabled
              /\ vic'.select = vic.select
              /\ vic'.default_isr = vic.default_isr
              /\ vic'.vector_entries = vic.vector_entries
         ]_vars

\* clear(31) with the hardware bit of line 0 set and line 31 asserted by
\* software as well: line 0 is kept and line 31 is still raw-asserted
C16_Witness ==
    /\ vret.op = "clear" /\ vret.offset = 31
    /\ ~BitOf(vic.status, 31)
    /\ BitOf(vic.status, 0)
    /\ BitOf(vic.software_status, 31)
    /\ BitOf(rawstatus(vic), 31)

\* the controller with line b as it is not now: asserted by hardware when
\* it is not asserted, and otherwise deasserted in hardware and in software
Toggled(b) ==
    IF Asserted(b)
    THEN [vic EXCEPT !.status = And32(@, Not32(Shl1(b))),
                     !.software_status = And32(@, Not32(Shl1(b)))]
    ELSE [vic EXCEPT !.status = Or32(@, Shl1(b))]

\* the lines on which the effect of a masked line is probed: the two lines
\* that are driven and mapped to vector slots, and one line that never is
ProbedLines == VicSources \cup {5}

\* C17: in every reachable state the registers read as: RawIntr = hardware
\* status OR software status; IRQStatus AND FIQStatus = 0; IRQStatus OR
\* FIQStatus = RawIntr AND IntEnable. A line whose enabled-mask bit is clear
\* is in neither status register, and whether it is asserted changes none
\* of irq(), fiq() and the VectAddr read.
C17_StatusPartition ==
    LET IRQStatus == VicRead(vic, 0).val
        FIQStatus == VicRead(vic, 4).val
        RawIntr   == VicRead(vic, 8).val
        IntEnable == VicRead(vic, 16).val
    IN  /\ \A b \in Lines :
              /\ BitOf(RawIntr, b) <=>
                    (BitOf(vic.status, b) \/ BitOf(vic.software_status, b))
              /\ ~(BitOf(IRQStatus, b) /\ BitOf(FIQStatus, b))
              /\ (BitOf(IRQStatus, b) \/ BitOf(FIQStatus, b)) <=>
                    (BitOf(RawIntr, b) /\ BitOf(IntEnable, b))
              /\ ~BitOf(vic.enabled, b) =>
                    ~BitOf(IRQStatus, b) /\ ~BitOf(FIQStatus, b)
        /\ \A b \in ProbedLines :
              ~BitOf(vic.enabled, b) =>
                    /\ irq(Toggled(b)) = irq(vic)
                    /\ fiq(Toggled(b)) = fiq(vic)
                    /\ VicRead(Toggled(b), 48) = VicRead(vic, 48)
        /\ \A o \in {0, 4, 8, 16} : VicDid("r32", o) => vret.res = VicRead(vic, o)

\* an IRQStatus read that shows line 0 alone while line 31, asserted and
\* served by an enabled vector slot, is masked out of the enabled mask
C17_Witness ==
    /\ VicDid("r32", 0)
    /\ vret.res = Ok(Line0)
    /\ Asserted(31) /\ ~BitOf(vic.enabled, 31)
    /\ \E i \in VectorSlots :
          vic.vector_entries[i].enabled /\ vic.vector_entries[i].source = 31

\* the offsets of the VectAddr and VectCntl register files
VectAddrOffsets == 256..316
VectCntlOffsets == 512..572

\* C18: every offset in 0x100..0x13C and in 0x200..0x23C addresses the
\* slot (offset - base) / 4, which is one of 0..15; a write to the VectAddr
\* or VectCntl register of a slot changes no other slot (and not the other
\* register of the same slot); the source index of every slot is within
\* 0..31 in every reachable state; after a write of v to VectCntl[i], a read
\* of VectCntl[i] returns v AND 0x3F.
C18_VectorTableAddressing ==
    /\ [](/\ \A o \in VectAddrOffsets : SlotIndex(o, 256) \in VectorSlots
          /\ \A o \in VectCntlOffsets : SlotIndex(o, 512) \in VectorSlots
          /\ \A i \in VectorSlots : vic.vector_entries[i].source \in 0..31
          /\ (vret.op = "w32" /\ vret.offset \in VectCntlOffsets) =>
                /\ vret.res.kind = "Ok"
                /\ VicRead(vic, vret.offset) = Ok(<<0, vret.val[2] % 64>>)
                /\ VicRead(vic, 512 + 4 * ((vret.offset - 512) \div 4)) =
                      Ok(<<0, vret.val[2] % 64>>))
    /\ [][ (vret'.op = "w32" /\ vret'.offset \in VectAddrOffsets \cup VectCntlOffsets) =>
              LET cntl == vret'.offset \in VectCntlOffsets
                  i == (vret'.offset - (IF cntl THEN 512 ELSE 256)) \div 4
              IN  /\ \A j \in VectorSlots \ {i} :
                        vic'.vector_entries[j] = vic.vector_entries[j]
                  /\ IF cntl
                     THEN vic'.vector_entries[i].isr_addr = vic.vector_entries[i].isr_addr
                     ELSE /\ vic'.vector_entries[i].isr_addr = vret'.val
                          /\ vic'.vector_entries[i].enabled = vic.vector_entries[i].enabled
                          /\ vic'.vector_entries[i].source = vic.vector_entries[i].source
                  /\ vic' = [vic EXCEPT !.vector_entries = vic'.vector_entries]
         ]_vars

\* a write of 0x3F at 0x202, inside the word of VectCntl[0]: slot 0 is
\* enabled on source 31 and reads back 0x3F at 0x200, while slot 15 is
\* still enabled on source 0 with its own address
C18_Witness ==
    /\ VicDid("w32", 514)
    /\ vret.val = FromNat(63)
    /\ vic.vector_entries[0].enabled /\ vic.vector_entries[0].source = 31
    /\ VicRead(vic, 512) = Ok(FromNat(63))
    /\ vic.vector_entries[15].enabled /\ vic.vector_entries[15].source = 0
    /\ vic.vector_entries[0].isr_addr # vic.vector_entries[15].isr_addr

\* C19: a Control write changes the load value only when it takes the
\* timer from enabled to disabled; a Control write with the enable bit
\* clear on a timer that is disabled already keeps a load value written
\* before, so that a Load read after a Load write with no
\* enabled-to-disabled transition in between returns a value.
C19_ControlWriteKeepsLoad ==
    /\ [][ (tret'.op = "w32" /\ tret'.offset = 8 /\ timer'.loadval # timer.loadval)
              => (timer.enabled /\ ~timer'.enabled) ]_vars
    /\ []((thist.load_written /\ TimerDid("r32", 0)) => tret.res.kind = "Ok")

\* C20 (as claimed): whenever the timer is enabled in periodic mode with a
\* load value set, the counter is at most the load value, whatever time has
\* elapsed and whatever Load and Control writes came before (a switch from
\* free-running to periodic while running included).
C20_AsClaimed ==
    (timer.enabled /\ timer.mode = "Periodic" /\ timer.loadval # None) =>
        Ge32(timer.loadval[1], timer.val)

\* a timer enabled in periodic mode with a load value set
InPeriodic(t) == t.enabled /\ t.mode = "Periodic" /\ t.loadval # None

\* C20: a timer that a Control write enables in periodic mode with a load
\* value set starts with its counter equal to the load value; and an access
\* that finds the timer enabled in periodic mode with the counter at most
\* the load value, and leaves it in periodic mode, leaves the counter at
\* most the load value, unless its update charges more than counter + load
\* value ticks: then the access aborts in the update or leaves the wrapped
\* difference load value - (ticks - counter). A running timer switched from
\* free-running to periodic keeps the counter of the free-running phase,
\* which is not bounded by the load value.
C20_PeriodicBelowReload ==
    /\ [][ (~timer.enabled /\ InPeriodic(timer')) =>
              timer'.val = timer'.loadval[1] ]_vars
    /\ [][ ( /\ InPeriodic(timer) /\ Ge32(timer.loadval[1], timer.val)
             /\ InPeriodic(timer') ) =>
              \/ /\ timer'.loadval = timer.loadval
                 /\ Ge32(timer'.loadval[1], timer'.val)
              \/ /\ StepReloads
                 /\ ~Ge32(timer.loadval[1], wrapping_sub(StepTicks, timer.val))
                 /\ timer'.val = StepDecayed
         ]_vars

\* a Value read of a periodic timer enabled at its load value 200 and not
\* written since, 254 ticks later: the counter went through one reload and
\* reads 146
C20_Witness ==
    /\ thist.epoch.active
    /\ thist.epoch.v0 = <<0, 200>>
    /\ InPeriodic(timer)
    /\ timer.loadval = Some(<<0, 200>>)
    /\ TicksSinceEnable = 254
    /\ TimerDid("r32", 4)
    /\ tret.res = Ok(<<0, 146>>)

====
